---- MODULE Spec2Model ----
(***************************************************************************)
(* A model of binance-trade-bot-go: the rate-limited retrying REST client  *)
(* (internal/binance/rest_client.go) and the scouting / jump-execution     *)
(* engine (internal/trader).                                               *)
(*                                                                         *)
(* Several specifications share the module.  SpecClient runs one call of   *)
(* RestClient.doRequest step by step (limiter wait, HTTP attempt, backoff  *)
(* sleep).  Spec runs the trading loop: tick, scout, sell leg, buy leg.    *)
(* In Spec a client call is one step whose outcome (result or error) is    *)
(* chosen non-deterministically; SpecClient shows how such an outcome is   *)
(* produced.  SpecRun adds the ticker and the shutdown signal to the loop  *)
(* of the engine, and SpecEval applies the profit evaluation and the       *)
(* selection to inputs of their own.                                       *)
(***************************************************************************)
EXTENDS Integers, Sequences, FiniteSets, TLC

VARIABLES
    \* ---- RestClient.doRequest (SpecClient) ----
    cpc,          \* position inside doRequest: idle / wait / exec / backoff / done
    req,          \* the request of the running call: [method, url]
    burst,        \* the limiter's burst capacity (config rate_limit_burst)
    i,            \* the loop variable of doRequest
    tokens,       \* tokens obtained from limiter.Wait during this call
    attempts,     \* the HTTP attempts sent during this call, in order
    waits,        \* the backoff sleeps taken during this call, in seconds
    result,       \* what doRequest returned: [resp, err]
    \* ---- the trading loop (Spec) ----
    cfg,                \* the configuration and build: [Strategy, Helpers, DryRun, Quantity]
    pc,                 \* position of the engine goroutine
    tick,               \* ticks fired so far
    currentCoin,        \* CurrentCoin.Symbol, the row of the current_coins table
    lastUsedCoinSymbol, \* DefaultStrategy.lastUsedCoinSymbol
    pairRatio,          \* Pair.Ratio of every row of the pairs table
    trades,             \* the rows of the trades table, in insertion order
    orders,             \* the CreateOrder calls made so far, in order
    prices,             \* the price snapshot the tick's evaluation used (kept
                        \* after a tick that found nothing, until the next one)
    jump,               \* locals of the running jump: pair, profit, quantities
    jumpLog,            \* how each jump ended, in order
    scoutRet,           \* what the last scout call returned
    fetches,            \* GetAllTickerPrices calls of the running tick: [n, first]
    \* ---- the process: shutdown signal, ticker, scouts in progress ----
    cancelled,          \* cancel() of main's context: [fired, inTick], inTick the
                        \* tick that was in progress when it was called (or 0)
    pending,            \* ticker.C holds a tick (buffer of one)
    active,             \* the ticks whose scout call has not returned
    \* ---- one profit evaluation (SpecEval) ----
    ev                  \* its inputs and result

cvars == <<cpc, req, burst, i, tokens, attempts, waits, result>>

evars == <<cfg, pc, tick, currentCoin, lastUsedCoinSymbol, pairRatio, trades,
           orders, prices, jump, jumpLog, scoutRet, fetches>>

rvars == <<cancelled, pending, active>>

vars == <<cvars, evars, rvars, ev>>


(***************************************************************************)
(* Configuration and numbers                                               *)
(*                                                                         *)
(* Quantities are integers counting thousandths of a coin, prices are      *)
(* integers in bridge units per coin, and a ratio or a profit is an exact  *)
(* fraction; the Go code computes all of them in float64.                  *)
(***************************************************************************)

\* Ticks the model runs.
MaxTicks == 2

Pow10(n) == IF n <= 0 THEN 1 ELSE IF n = 1 THEN 10 ELSE IF n = 2 THEN 100 ELSE 1000

\* trading.bridge and trading.trade_pairs
Bridge == "USDT"

TradePairs == <<"BTC", "ETH", "BNB">>

CoinSet == { TradePairs[k] : k \in 1..Len(TradePairs) }

\* fromSymbol := pair.FromCoinSymbol + bridge
Sym(c) == <<c, Bridge>>

Symbols == { Sym(c) : c \in CoinSet }

\* trading.fee_rate (here 1%), trading.scout_margin (percent) and the
\* quantities tried for trading.quantity / Coin.Quantity: 1.0 and 0.05.
Trading == [FeeNum |-> 1, FeeDen |-> 100, ScoutMargin |-> 1]

Quantities == {1000, 50}

\* The builds and strategies.  Engine is engine.go (Engine.scout and
\* Engine.executeJumpTransaction).  The strategies call ExecuteJump, of which
\* strategy_helpers.go holds two versions: Helpers 1 (three parameters, only
\* simulates) and Helpers 2 (four parameters, places orders and records
\* trades).  MultipleCoinsStrategy passes four arguments; DefaultStrategy
\* passes three, while its tests expect the orders of Helpers 2.
Builds ==
    { [Strategy |-> "Engine",        Helpers |-> 0],
      [Strategy |-> "Default",       Helpers |-> 1],
      [Strategy |-> "Default",       Helpers |-> 2],
      [Strategy |-> "MultipleCoins", Helpers |-> 2] }

Configs ==
    { [Strategy |-> b.Strategy, Helpers |-> b.Helpers, DryRun |-> d, Quantity |-> q] :
          b \in Builds, d \in BOOLEAN, q \in Quantities }

\* The pairs table in creation order: all ordered pairs of distinct coins.
AllPairs ==
    LET n == Len(TradePairs)
        all == [k \in 1..(n * n) |->
                   [from |-> TradePairs[((k - 1) \div n) + 1],
                    to   |-> TradePairs[((k - 1) % n) + 1]]]
        Distinct(p) == p.from # p.to
    IN  SelectSeq(all, Distinct)

PairSet == { AllPairs[k] : k \in 1..Len(AllPairs) }

\* db.Where("from_coin_symbol = ?", c).Find(&pairs)
PairsFrom(c) ==
    LET FromC(p) == p.from = c
    IN  SelectSeq(AllPairs, FromC)

ZeroRatio == [n |-> 0, d |-> 1]

(***************************************************************************)
(* The exchange as seen through the client                                 *)
(***************************************************************************)

PriceLevels == {1, 2}

NoPrices == [s \in {} |-> 0]

\* Price maps GetAllTickerPrices can return: every symbol priced, a symbol
\* missing, and a symbol priced "0".
Snapshots ==
    { [s \in Symbols |-> 1],
      [s \in Symbols |-> IF s = Sym("BTC") THEN 2 ELSE 1],
      [s \in Symbols |-> IF s = Sym("ETH") THEN 2 ELSE 1],
      [s \in Symbols \ {Sym("ETH")} |-> 2],
      [s \in Symbols |-> IF s = Sym("BNB") THEN 0 ELSE 1] }

\* (prices, err) of GetAllTickerPrices
FetchResults ==
    { [err |-> FALSE, prices |-> m] : m \in Snapshots }
    \cup { [err |-> TRUE, prices |-> NoPrices] }

\* strconv.ParseFloat(str, 64): (value, err).  A price string is held as
\* the number it spells; a negative entry stands for a string that spells
\* no number, for which ParseFloat returns 0 and an error.
ParseFloat(v) == [val |-> IF v < 0 THEN 0 ELSE v, err |-> v < 0]

\* price, _ := strconv.ParseFloat(prices[symbol], 64): 0 for a missing key.
ParsePrice(m, s) == IF s \in DOMAIN m THEN ParseFloat(m[s]).val ELSE 0

\* The exchange rules cached at start-up, minimums in thousandths: LOT_SIZE
\* of BTCUSDT is step "0.1", minimum 0.01; of ETHUSDT step "0.010", minimum
\* 0.1; BNBUSDT has no rule.
ExchangeRules ==
    (Sym("BTC") :> [lot |-> TRUE, stepSize |-> <<"0", ".", "1">>, minQty |-> 10])
    @@
    (Sym("ETH") :> [lot |-> TRUE, stepSize |-> <<"0", ".", "0", "1", "0">>, minQty |-> 100])

(***************************************************************************)
(* formatQuantity                                                          *)
(***************************************************************************)

\* Index of the first '.', 0 when there is none.
DotIndex(step) ==
    IF \E k \in 1..Len(step) : step[k] = "."
    THEN CHOOSE k \in 1..Len(step) :
             step[k] = "." /\ \A j \in 1..(k - 1) : step[j] # "."
    ELSE 0

\* Decimal places of stepSize once its trailing zeros are trimmed.
Precision(step) ==
    LET dot == DotIndex(step)
        nz  == { k \in (dot + 1)..Len(step) : step[k] # "0" }
    IN  IF dot # 0 /\ nz # {}
        THEN (CHOOSE k \in nz : \A j \in nz : j <= k) - dot
        ELSE 0

\* math.Floor(quantity*multiplier) / multiplier, multiplier = 10^precision,
\* on a quantity counted in thousandths.
FloorToPrecision(q, prec) ==
    IF prec >= 3 THEN q
    ELSE (q \div Pow10(3 - prec)) * Pow10(3 - prec)

\* The second minimum check, on the floored quantity.
FlooredBelowMinUnchecked(floored, minQty) == FALSE

FlooredBelowMin(floored, minQty) == floored < minQty

\* formatQuantity once the symbol's rule is found: (floored, err)
formatWithRule(rule, q) ==
    IF ~rule.lot THEN [qty |-> q, err |-> FALSE]
    ELSE IF q < rule.minQty THEN [qty |-> 0, err |-> TRUE]
    ELSE LET floored == FloorToPrecision(q, Precision(rule.stepSize)) IN
         IF FlooredBelowMin(floored, rule.minQty)
         THEN [qty |-> 0, err |-> TRUE]
         ELSE [qty |-> floored, err |-> FALSE]

\* rule, ok := ctx.ExchangeRules[symbol]; if !ok { return quantity, nil }
formatQuantityRuleRequired(rules, symbol, q) ==
    IF symbol \notin DOMAIN rules THEN [qty |-> 0, err |-> TRUE]
    ELSE formatWithRule(rules[symbol], q)

formatQuantityIn(rules, symbol, q) ==
    IF symbol \notin DOMAIN rules THEN [qty |-> q, err |-> FALSE]
    ELSE formatWithRule(rules[symbol], q)

\* formatQuantity(symbol, quantity): (floored, err)
formatQuantity(symbol, q) == formatQuantityIn(ExchangeRules, symbol, q)

(***************************************************************************)
(* Profit evaluation and selection                                         *)
(***************************************************************************)

\* A profit is num / (den * ProfitScale); den = 0 is +Inf, the float64
\* result of dividing by a zero Ratio.
ProfitScale == Trading.FeeDen * Trading.FeeDen * 100

ZeroProfit == [num |-> 0, den |-> 1]

\* (currentRatio * (1-fee) * (1-fee) / pair.Ratio) - 1 - margin
ProfitOfNoFees(fromPrice, toPrice, ratio) ==
    IF ratio.n = 0 THEN [num |-> 1, den |-> 0]
    ELSE [num |-> fromPrice * ratio.d * ProfitScale - toPrice * ratio.n * ProfitScale,
          den |-> toPrice * ratio.n]

ProfitOf(fromPrice, toPrice, ratio) ==
    IF ratio.n = 0 THEN [num |-> 1, den |-> 0]
    ELSE LET keep == Trading.FeeDen - Trading.FeeNum IN
         [num |-> fromPrice * ratio.d * keep * keep * 100
                  - toPrice * ratio.n * ProfitScale
                  - toPrice * ratio.n * Trading.FeeDen * Trading.FeeDen * Trading.ScoutMargin,
          den |-> toPrice * ratio.n]

\* profit > 0
ProfitPositiveAlways(p) == TRUE

ProfitPositive(p) == p.num > 0

\* a > b on float64 values
ProfitGreater(a, b) == a.num * b.den > b.num * a.den

\* if pair.ToCoinSymbol == bridge { return 0, nil }
ToIsBridgeNever(pair) == FALSE

ToIsBridge(pair) == pair.to = Bridge

\* calculateProfitForPair of strategy_helpers.go: (profit, err)
calculateProfitForPair(pair, ratio, m) ==
    IF ToIsBridge(pair) THEN [profit |-> ZeroProfit, err |-> FALSE]
    ELSE IF Sym(pair.from) \notin DOMAIN m \/ Sym(pair.to) \notin DOMAIN m
    THEN [profit |-> ZeroProfit, err |-> TRUE]
    ELSE LET from == ParseFloat(m[Sym(pair.from)])
             to   == ParseFloat(m[Sym(pair.to)])
         IN  IF from.err \/ to.err THEN [profit |-> ZeroProfit, err |-> TRUE]
             ELSE IF from.val = 0 \/ to.val = 0
             THEN [profit |-> ZeroProfit, err |-> TRUE]
             ELSE [profit |-> ProfitOf(from.val, to.val, ratio), err |-> FALSE]

\* Engine.calculateProfitRatio of engine.go: a missing price is no error,
\* and a parse error is dropped, leaving the price 0.
calculateProfitRatio(pair, ratio, m) ==
    IF ToIsBridge(pair) THEN [profit |-> ZeroProfit, err |-> FALSE]
    ELSE IF Sym(pair.from) \notin DOMAIN m THEN [profit |-> ZeroProfit, err |-> FALSE]
    ELSE IF Sym(pair.to) \notin DOMAIN m THEN [profit |-> ZeroProfit, err |-> FALSE]
    ELSE LET from == ParseFloat(m[Sym(pair.from)]).val
             to   == ParseFloat(m[Sym(pair.to)]).val
         IN  IF from = 0 \/ to = 0 THEN [profit |-> ZeroProfit, err |-> TRUE]
             ELSE [profit |-> ProfitOf(from, to, ratio), err |-> FALSE]

Evaluate(strategy, pair, ratio, m) ==
    IF strategy = "Engine" THEN calculateProfitRatio(pair, ratio, m)
    ELSE calculateProfitForPair(pair, ratio, m)

NoOpp == [found |-> FALSE, pair |-> [from |-> "", to |-> ""], profit |-> ZeroProfit]

\* The opportunities sent for the pairs ps, in the order of ps: a pair
\* whose evaluation fails sends none and the others go on.
RECURSIVE OpportunitiesStopAtError(_, _, _, _)
OpportunitiesStopAtError(strategy, ps, ratios, m) ==
    IF ps = <<>> THEN <<>>
    ELSE LET r == Evaluate(strategy, Head(ps), ratios[Head(ps)], m) IN
         IF r.err THEN <<>>
         ELSE (IF ProfitPositive(r.profit)
               THEN <<[found |-> TRUE, pair |-> Head(ps), profit |-> r.profit]>>
               ELSE <<>>)
              \o OpportunitiesStopAtError(strategy, Tail(ps), ratios, m)

RECURSIVE Opportunities(_, _, _, _)
Opportunities(strategy, ps, ratios, m) ==
    IF ps = <<>> THEN <<>>
    ELSE LET r    == Evaluate(strategy, Head(ps), ratios[Head(ps)], m)
             rest == Opportunities(strategy, Tail(ps), ratios, m)
         IN  IF ~r.err /\ ProfitPositive(r.profit)
             THEN <<[found |-> TRUE, pair |-> Head(ps), profit |-> r.profit]>> \o rest
             ELSE rest

\* if bestOpp == nil || opp.Profit > bestOpp.Profit { bestOpp = &opp }
CollectLast(opps, best) == IF opps = <<>> THEN best ELSE opps[Len(opps)]

RECURSIVE CollectBest(_, _)
CollectBest(opps, best) ==
    IF opps = <<>> THEN best
    ELSE CollectBest(Tail(opps),
                     IF ~best.found \/ ProfitGreater(Head(opps).profit, best.profit)
                     THEN Head(opps) ELSE best)

\* The orders in which the evaluation goroutines can deliver opps to the
\* channel.
ArrivalOrders(opps) ==
    LET n == Len(opps) IN
    { [k \in 1..n |-> opps[f[k]]] :
          f \in { g \in [1..n -> 1..n] : \A a, b \in 1..n : g[a] = g[b] => a = b } }

(***************************************************************************)
(* The trading loop                                                        *)
(***************************************************************************)

RECURSIVE Gcd(_, _)
Gcd(a, b) == IF b = 0 THEN a ELSE Gcd(b, a % b)

\* ratio := fromPrice / toPrice, kept as a fraction in lowest terms
RatioOf(fromPrice, toPrice) ==
    [n |-> fromPrice \div Gcd(fromPrice, toPrice),
     d |-> toPrice \div Gcd(fromPrice, toPrice)]

\* The ratio written for one pair from a price map: only when both prices
\* are present and positive.
RatioFromPrices(old, pair, m) ==
    IF /\ Sym(pair.from) \in DOMAIN m
       /\ Sym(pair.to) \in DOMAIN m
       /\ m[Sym(pair.from)] > 0
       /\ m[Sym(pair.to)] > 0
    THEN RatioOf(m[Sym(pair.from)], m[Sym(pair.to)])
    ELSE old

\* Engine.initialize step 3: every pair whose ratio is 0 gets fromPrice/toPrice.
InitialRatios(ratios, m) ==
    [p \in PairSet |->
        IF ratios[p] = ZeroRatio THEN RatioFromPrices(ratios[p], p, m) ELSE ratios[p]]

\* The pairs table after the evaluation phase of a tick: each goroutine
\* reads the Ratio of its own copy of the pair and nothing is saved.
RatiosRebenchmarked(ratios, m) ==
    [p \in PairSet |-> RatioFromPrices(ratios[p], p, m)]

RatiosAfterEvaluation(ratios, m) == ratios

\* Engine.updateRatiosForNewCoin
updateRatiosForNewCoin(ratios, newCoin, m) ==
    [p \in PairSet |->
        IF p.from = newCoin THEN RatioFromPrices(ratios[p], p, m) ELSE ratios[p]]

\* formattedSellQty * price * (1 - FeeRate)
Proceeds(q, price) ==
    (q * price * (Trading.FeeDen - Trading.FeeNum)) \div Trading.FeeDen

\* strconv.ParseFloat(sellOrder.CummulativeQuoteQty): what the exchange
\* reports for a filled SELL of q, or 0 for an empty field.
CumQuotes(q) == {0} \cup { q * pl : pl \in PriceLevels }

\* (order, err) of CreateOrder
OrderResults(q) ==
    { [err |-> FALSE, cumQuote |-> c] : c \in CumQuotes(q) }
    \cup { [err |-> TRUE, cumQuote |-> 0] }

\* bridgeQtyObtained of the sell leg: executeJumpTransaction takes the
\* CummulativeQuoteQty of its SELL order, and computes the amount from a
\* ticker price in dry-run; ExecuteJump always computes it from the ticker
\* price it fetches after the sell.
BridgeObtained(c, q, tickerPrice, cumQuote) ==
    IF c.Helpers = 0 /\ ~c.DryRun THEN cumQuote ELSE Proceeds(q, tickerPrice)

\* Whether the executor of this build sends orders: executeJumpTransaction
\* does unless DryRun is set; ExecuteJump of Helpers 2 always calls
\* CreateOrder; ExecuteJump of Helpers 1 never does.
PlacesOrders(c) ==
    IF c.Helpers = 0 THEN ~c.DryRun
    ELSE c.Helpers = 2

\* if err != nil { return ... } after the SELL order
ContinuesAfterSellAlways(sellErr) == TRUE

ContinuesAfterSell(sellErr) == ~sellErr

\* engine.go: every failure returns before e.db.Model(&currentCoin).Update.
CurrentCoinAfterAlways(cur, to, outcome) == to

CurrentCoinAfter(cur, to, outcome) == IF outcome = "ok" THEN to ELSE cur

\* DefaultStrategy.Scout: on an error from ExecuteJump it returns before
\* s.lastUsedCoinSymbol = bestOpp.Pair.ToCoinSymbol.
LastUsedAfterNever(last, to, outcome) == last

LastUsedAfter(last, to, outcome) == IF outcome = "ok" THEN to ELSE last

\* What scout returns after a jump: Engine.scout always nil, the strategies
\* the error of ExecuteJump.
ScoutReturn(strategy, outcome) ==
    IF strategy = "Engine" \/ outcome = "ok" THEN "nil" ELSE "err"

NoJump == [pair |-> [from |-> "", to |-> ""], profit |-> ZeroProfit,
           sellQty |-> 0, bridgeQty |-> 0]

\* The record the running variant keeps of the asset it holds.
Held ==
    IF cfg.Strategy = "Engine" THEN currentCoin
    ELSE IF cfg.Strategy = "Default" THEN lastUsedCoinSymbol
    ELSE ""

\* Rows of the current_coins table: Symbol is unique and not null, and a
\* row is created only when First finds none.
CurrentCoinRows == IF currentCoin = "" THEN 0 ELSE 1

\* ctx of main before cancel() is called.
NotCancelled == [fired |-> FALSE, inTick |-> 0]

NoFetch == [n |-> 0, first |-> "none"]

NoEval == [kind |-> "none", done |-> FALSE]

\* The engine goroutine is at the select of Run's loop: e.scout() is called
\* inside the ticker case and the loop comes back only when it has returned.
LoopAtSelectAnytime(p) == p \in {"idle", "scout", "sell", "buy"}

LoopAtSelect(p) == p = "idle"

\* if err != nil { return fmt.Errorf("could not get all ticker prices") }
AbortsOnFetchErrorNever(err) == FALSE

AbortsOnFetchError(err) == err

Init ==
    /\ cfg \in Configs
    /\ pc = "boot"
    /\ fetches = NoFetch
    /\ cancelled = NotCancelled
    /\ pending = FALSE
    /\ active = {}
    /\ ev = NoEval
    /\ tick = 0
    /\ currentCoin = ""
    /\ lastUsedCoinSymbol = ""
    /\ pairRatio = [p \in PairSet |-> ZeroRatio]
    /\ trades = <<>>
    /\ orders = <<>>
    /\ prices = NoPrices
    /\ jump = NoJump
    /\ jumpLog = <<>>
    /\ scoutRet = "none"
    /\ cpc = "idle"
    /\ req = [method |-> "GET", url |-> "/time"]
    /\ burst = 5
    /\ i = 0
    /\ tokens = 0
    /\ attempts = <<>>
    /\ waits = <<>>
    /\ result = [resp |-> "none", err |-> "none"]

\* log.Fatal / logger.Fatal after a failed start-up step: the entry is
\* written and os.Exit(1) ends the process.
FatalGoesOn(p) == IF p = "probe_failed" THEN "start" ELSE "idle"

Fatal(p) == "fatal"

\* main: the connectivity probe restClient.GetServerTime() before the
\* engine is built.
Connect ==
    /\ pc = "boot"
    /\ \E probeErr \in BOOLEAN :
          pc' = IF probeErr THEN "probe_failed" ELSE "start"
    /\ UNCHANGED <<cfg, tick, currentCoin, lastUsedCoinSymbol, pairRatio, trades,
                   orders, prices, jump, jumpLog, scoutRet, fetches, cvars, rvars, ev>>

\* if err != nil { log.Fatal(...) } of main and of Engine.Run
Abort ==
    /\ pc \in {"probe_failed", "rules_failed", "prices_failed"}
    /\ pc' = Fatal(pc)
    /\ UNCHANGED <<cfg, tick, currentCoin, lastUsedCoinSymbol, pairRatio, trades,
                   orders, prices, jump, jumpLog, scoutRet, fetches, cvars, rvars, ev>>

\* Engine.initialize: exchange rules, pairs, the initial coin, the ratios.
\* A failed GetExchangeInfo or GetAllTickerPrices makes it return an error.
Initialize ==
    /\ pc = "start"
    /\ \E infoErr \in BOOLEAN, c \in CoinSet \ {Bridge}, f \in FetchResults :
        IF infoErr
        THEN /\ pc' = "rules_failed"
             /\ UNCHANGED <<currentCoin, lastUsedCoinSymbol, pairRatio>>
        ELSE /\ currentCoin' = IF cfg.Strategy = "Engine" THEN c ELSE currentCoin
             /\ lastUsedCoinSymbol' =
                    IF cfg.Strategy = "Default" THEN c ELSE lastUsedCoinSymbol
             /\ IF f.err
                THEN pc' = "prices_failed" /\ UNCHANGED pairRatio
                ELSE pc' = "idle" /\ pairRatio' = InitialRatios(pairRatio, f.prices)
    /\ UNCHANGED <<cfg, tick, trades, orders, prices, jump, jumpLog, scoutRet,
                   fetches, cvars, rvars, ev>>

\* case <-ticker.C: e.scout() is entered.
StartTick ==
    /\ LoopAtSelect(pc)
    /\ tick < MaxTicks
    /\ tick' = tick + 1
    /\ pc' = "scout"
    /\ scoutRet' = "none"
    /\ fetches' = NoFetch
    /\ active' = active \cup {tick + 1}
    /\ UNCHANGED <<cfg, currentCoin, lastUsedCoinSymbol, pairRatio, trades, orders,
                   prices, jump, jumpLog, cvars, cancelled, ev>>

\* The ticker delivers a tick and the loop receives it.
Tick == StartTick /\ UNCHANGED pending

\* Every stored pair, whatever is held.
CandidatesAll == AllPairs

\* Only the pairs from the first configured coin.
CandidatesFromFirstCoin == PairsFrom(TradePairs[1])

\* The candidates of a tick: all pairs (MultipleCoins) or the pairs from the
\* held coin.
Candidates == IF cfg.Strategy = "MultipleCoins" THEN AllPairs ELSE PairsFrom(Held)

\* The orders in which the tick's opportunities reach the collector:
\* MultipleCoinsStrategy evaluates in table order, the others concurrently.
Deliveries(opps) ==
    IF cfg.Strategy = "MultipleCoins" THEN {opps} ELSE ArrivalOrders(opps)

\* Scout up to the choice of the best opportunity: the price fetch, the
\* evaluation of every candidate and the selection.
Scout ==
    /\ pc = "scout"
    /\ \E f \in FetchResults :
        /\ fetches' = [n |-> 1, first |-> IF f.err THEN "err" ELSE "ok"]
        /\ IF AbortsOnFetchError(f.err)
           THEN /\ scoutRet' = "err"
                /\ pc' = "idle"
                /\ active' = active \ {tick}
                /\ UNCHANGED <<prices, jump>>
           ELSE \E d \in Deliveries(Opportunities(cfg.Strategy, Candidates, pairRatio, f.prices)) :
             LET best == CollectBest(d, NoOpp) IN
             IF best.found
             THEN /\ jump' = [NoJump EXCEPT !.pair = best.pair, !.profit = best.profit]
                  /\ prices' = f.prices
                  /\ pc' = "sell"
                  /\ UNCHANGED <<scoutRet, active>>
             ELSE /\ scoutRet' = "nil"
                  /\ prices' = f.prices
                  /\ pc' = "idle"
                  /\ active' = active \ {tick}
                  /\ UNCHANGED jump
        /\ pairRatio' = IF f.err THEN pairRatio
                        ELSE RatiosAfterEvaluation(pairRatio, f.prices)
    /\ UNCHANGED <<cfg, tick, currentCoin, lastUsedCoinSymbol, trades,
                   orders, jumpLog, cvars, cancelled, pending, ev>>

\* The end of a jump: what is written and returned for its outcome.
Finish(outcome, newOrders, newTrades, newRatios, fetched) ==
    /\ pc' = "idle"
    /\ jumpLog' = Append(jumpLog, [tick |-> tick, pair |-> jump.pair, outcome |-> outcome])
    /\ scoutRet' = ScoutReturn(cfg.Strategy, outcome)
    /\ currentCoin' =
           IF cfg.Strategy = "Engine"
           THEN CurrentCoinAfter(currentCoin, jump.pair.to, outcome)
           ELSE currentCoin
    /\ lastUsedCoinSymbol' =
           IF cfg.Strategy = "Default"
           THEN LastUsedAfter(lastUsedCoinSymbol, jump.pair.to, outcome)
           ELSE lastUsedCoinSymbol
    /\ orders' = newOrders
    /\ trades' = newTrades
    /\ pairRatio' = newRatios
    /\ jump' = NoJump
    /\ prices' = NoPrices
    /\ fetches' = [fetches EXCEPT !.n = @ + fetched]
    /\ active' = active \ {tick}
    /\ UNCHANGED <<cfg, tick, cvars, cancelled, pending, ev>>

\* The jump goes on to its buy leg with the proceeds of the sell leg.
ToBuyLeg(sellQty, bridgeQty, newOrders, newTrades, fetched) ==
    /\ pc' = "buy"
    /\ jump' = [jump EXCEPT !.sellQty = sellQty, !.bridgeQty = bridgeQty]
    /\ orders' = newOrders
    /\ trades' = newTrades
    /\ fetches' = [fetches EXCEPT !.n = @ + fetched]
    /\ UNCHANGED <<cfg, tick, currentCoin, lastUsedCoinSymbol, pairRatio, prices,
                   jumpLog, scoutRet, cvars, rvars, ev>>

Order(symbol, side, q, err) ==
    [tick |-> tick, symbol |-> symbol, side |-> side, qty |-> q, ok |-> ~err]

Trade(symbol, side, price, q, profit) ==
    [Symbol |-> symbol, Type |-> side, Price |-> price, Quantity |-> q,
     QuoteQuantity |-> q * price, IsSimulation |-> FALSE, Profit |-> profit]

\* Step 1 of the jump: size the SELL, then place or simulate it.
SellLeg ==
    /\ pc = "sell"
    /\ LET sym == Sym(jump.pair.from)
           fq  == formatQuantity(sym, cfg.Quantity)
       IN
       IF fq.err
       THEN Finish("sell_sizing", orders, trades, pairRatio, 0)
       ELSE IF PlacesOrders(cfg)
       THEN \E o \in OrderResults(fq.qty) :
            LET placed == Append(orders, Order(sym, "SELL", fq.qty, o.err)) IN
            IF ~ContinuesAfterSell(o.err)
            THEN Finish("sell_order", placed, trades, pairRatio, 0)
            ELSE IF cfg.Helpers = 2
            THEN \E f \in FetchResults :
                 LET price == ParsePrice(f.prices, sym) IN
                 ToBuyLeg(fq.qty, Proceeds(fq.qty, price), placed,
                          Append(trades, Trade(sym, "SELL", price, fq.qty, ZeroProfit)), 1)
            ELSE ToBuyLeg(fq.qty, o.cumQuote, placed, trades, 0)
       ELSE IF cfg.DryRun
       THEN \E f \in FetchResults :
            ToBuyLeg(fq.qty, Proceeds(fq.qty, ParsePrice(f.prices, sym)), orders, trades, 1)
       ELSE Finish("not_implemented", orders, trades, pairRatio, 0)

\* Step 2 of the jump: price and size the BUY, place or simulate it, and on
\* success update the state.
BuyLeg ==
    /\ pc = "buy"
    /\ \E f \in FetchResults :
       LET sym     == Sym(jump.pair.to)
           toPrice == ParsePrice(f.prices, sym)
           fq      == formatQuantity(sym, jump.bridgeQty \div toPrice)
       IN
       IF toPrice = 0
       THEN Finish("no_to_price", orders, trades, pairRatio, 1)
       ELSE IF fq.err
       THEN Finish("buy_sizing", orders, trades, pairRatio, 1)
       ELSE IF PlacesOrders(cfg)
       THEN \E buyErr \in BOOLEAN :
            LET placed == Append(orders, Order(sym, "BUY", fq.qty, buyErr)) IN
            IF buyErr
            THEN Finish("buy_order", placed, trades, pairRatio, 1)
            ELSE IF cfg.Helpers = 2
            THEN Finish("ok", placed,
                        Append(trades, Trade(sym, "BUY", toPrice, fq.qty, jump.profit)),
                        pairRatio, 1)
            ELSE Finish("ok", placed, trades,
                        updateRatiosForNewCoin(pairRatio, jump.pair.to, f.prices), 1)
       ELSE IF cfg.Helpers = 0
       THEN Finish("ok", orders, trades,
                   updateRatiosForNewCoin(pairRatio, jump.pair.to, f.prices), 1)
       ELSE Finish("ok", orders, trades, pairRatio, 1)

\* main's signal goroutine: a SIGINT or SIGTERM arrives and cancel() is called.
Cancel ==
    /\ ~cancelled.fired
    /\ cancelled' = [fired |-> TRUE, inTick |-> IF active = {} THEN 0 ELSE tick]
    /\ UNCHANGED <<cvars, evars, pending, active, ev>>

Next == Connect \/ Abort \/ Initialize \/ Tick \/ Scout \/ SellLeg \/ BuyLeg

Spec == Init /\ [][Next]_vars

\* C17: when the price fetch at the start of a tick fails, scout returns
\* an error at once: no jump is chosen, no order is placed, the held asset,
\* the ratios and the trade records are unchanged, and the tick makes no
\* second fetch.
C17_FetchFailureAbortsTick ==
    /\ [][ (pc = "scout" /\ fetches'.first = "err")
              => /\ pc' = "idle"
                 /\ scoutRet' = "err"
                 /\ jumpLog' = jumpLog
                 /\ orders' = orders
                 /\ trades' = trades
                 /\ pairRatio' = pairRatio
                 /\ currentCoin' = currentCoin
                 /\ lastUsedCoinSymbol' = lastUsedCoinSymbol ]_vars
    /\ [](fetches.first = "err" => (fetches.n = 1 /\ pc = "idle"))

\* The second tick was aborted by its fetch after a first tick that jumped.
C17_Witness ==
    /\ pc = "idle"
    /\ tick = 2
    /\ fetches = [n |-> 1, first |-> "err"]
    /\ scoutRet = "err"
    /\ jumpLog # <<>>

(***************************************************************************)
(* Engine.Run with its ticker and the shutdown signal (SpecRun)            *)
(***************************************************************************)

\* time.Ticker puts a tick into ticker.C (buffer of one) and drops it when
\* the previous tick has not been received; the ticker exists from the
\* start of the loop until Run returns.
TickerFire ==
    /\ pc \in {"idle", "scout", "sell", "buy"}
    /\ ~pending
    /\ pending' = TRUE
    /\ UNCHANGED <<cvars, evars, cancelled, active, ev>>

\* case <-ticker.C of the select
ReceiveTick ==
    /\ pending
    /\ StartTick
    /\ pending' = FALSE

\* case <-ctx.Done(): return
Return ==
    /\ LoopAtSelect(pc)
    /\ cancelled.fired
    /\ pc' = "stopped"
    /\ UNCHANGED <<cfg, tick, currentCoin, lastUsedCoinSymbol, pairRatio, trades,
                   orders, prices, jump, jumpLog, scoutRet, fetches, cvars, rvars, ev>>

\* Engine.Run of engine.go runs Engine.scout; here with orders placed for
\* the larger quantity.
InitRun ==
    /\ Init
    /\ cfg = [Strategy |-> "Engine", Helpers |-> 0, DryRun |-> FALSE, Quantity |-> 1000]

NextRun ==
    Connect \/ Abort \/ Initialize \/ TickerFire \/ ReceiveTick \/ Scout \/ SellLeg \/ BuyLeg
    \/ Cancel \/ Return

SpecRun == InitRun /\ [][NextRun]_vars

\* C14: when the shutdown signal fired during a tick, that tick does not go
\* on from its evaluation to the execution of a jump.
C14_NoJumpStartsAfterSignal ==
    [][ (cancelled.fired /\ cancelled.inTick = tick /\ pc = "scout")
            => pc' # "sell" ]_vars

\* C15: once the shutdown signal has fired (here: during a tick) the loop
\* starts no new tick.
C15_NoTickAfterSignal ==
    [][ (cancelled.fired /\ cancelled.inTick # 0)
            => ~(pc = "idle" /\ pc' = "scout") ]_vars

\* C16: at most one tick's scout is running at any time: the scout of a
\* tick starts only when no other is in progress, also when a tick arrived
\* while the previous scout was still running.
C16_OneScoutAtATime ==
    /\ Cardinality(active) <= 1
    /\ pc \in {"scout", "sell", "buy"} => active = {tick}
    /\ pc \in {"idle", "stopped"} => active = {}

\* The second tick's jump is in its buy leg and the next tick is already
\* waiting in the ticker's channel.
C16_Witness ==
    /\ pending
    /\ pc = "buy"
    /\ tick = 2
    /\ active = {2}

(***************************************************************************)
(* Properties of the jump                                                  *)
(***************************************************************************)

LastJump == jumpLog[Len(jumpLog)]

\* The step that ends a jump.
JumpEnds == pc \in {"sell", "buy"} /\ pc' = "idle"

Failures ==
    {"sell_sizing", "sell_order", "no_to_price", "buy_sizing", "buy_order",
     "not_implemented"}

\* C1: a jump that fails at any step (sell sizing, sell order, missing To
\* price, buy sizing, buy order) leaves the record of the held asset, the
\* current coin of the engine and the last-used coin of the single-holding
\* strategy, with the value it had before the jump.
C1_FailedJumpKeepsHolding ==
    [][ (JumpEnds /\ jumpLog'[Len(jumpLog')].outcome \in Failures)
            => /\ currentCoin' = currentCoin
               /\ lastUsedCoinSymbol' = lastUsedCoinSymbol ]_vars

\* A jump whose BUY order failed after its SELL was placed, the held coin
\* still the one sold.
C1_Witness ==
    /\ pc = "idle"
    /\ jumpLog # <<>>
    /\ LastJump.outcome = "buy_order"
    /\ Held = LastJump.pair.from

\* C2: after a jump From->To whose sell leg and buy leg both succeeded, the
\* record of the held asset names To (in the variants that keep one: the
\* engine's current coin, the single-holding strategy's last-used coin).
C2_SuccessfulJumpHoldsTo ==
    (jumpLog # <<>> /\ LastJump.outcome = "ok" /\ cfg.Strategy # "MultipleCoins")
        => Held = LastJump.pair.to

\* A completed jump with both orders placed.
C2_Witness ==
    /\ pc = "idle"
    /\ jumpLog # <<>>
    /\ LastJump.outcome = "ok"
    /\ cfg.Strategy = "Default"
    /\ Len(orders) = 2
    /\ lastUsedCoinSymbol = LastJump.pair.to

\* The value of a decimal string in thousandths.
Digit(ch) == CHOOSE d \in 0..9 : ToString(d) = ch

\* Where the integer part of a decimal string ends: at its '.', or after
\* its last character when it has none.
IntEnd(step) == IF DotIndex(step) = 0 THEN Len(step) + 1 ELSE DotIndex(step)

RECURSIVE Thousandths(_, _)
Thousandths(step, k) ==
    IF k > Len(step) THEN 0
    ELSE (IF k < IntEnd(step) THEN Digit(step[k]) * 1000 * Pow10(IntEnd(step) - 1 - k)
          ELSE IF k = IntEnd(step) \/ k - IntEnd(step) > 3 THEN 0
          ELSE Digit(step[k]) * Pow10(3 - (k - IntEnd(step))))
         + Thousandths(step, k + 1)

\* The quantity rounded down to a multiple of the symbol's step size.
RoundedToStep(symbol, q) ==
    LET step == Thousandths(ExchangeRules[symbol].stepSize, 1) IN (q \div step) * step

\* The sell of the jump in progress is undersized.
SellUndersized ==
    /\ pc = "sell"
    /\ Sym(jump.pair.from) \in DOMAIN ExchangeRules
    /\ RoundedToStep(Sym(jump.pair.from), cfg.Quantity)
           < ExchangeRules[Sym(jump.pair.from)].minQty

PartialJump(k) ==
    /\ jumpLog[k].outcome \in {"no_to_price", "buy_sizing", "buy_order"}
    /\ \E j \in DOMAIN orders :
        /\ orders[j].tick = jumpLog[k].tick
        /\ orders[j].side = "SELL"
        /\ orders[j].ok

\* C4: after a partial jump (SELL succeeded, buy leg failed or undersized)
\* no later tick places another SELL of the From asset already sold.
C4_NoSecondSellAfterPartialJump ==
    \A k \in DOMAIN jumpLog :
        PartialJump(k) =>
            \A j \in DOMAIN orders :
                ~ /\ orders[j].tick > jumpLog[k].tick
                  /\ orders[j].side = "SELL"
                  /\ orders[j].symbol = Sym(jumpLog[k].pair.from)

\* C5: with dry-run configured no order is sent for either leg of a jump.
C5_DryRunPlacesNoOrder == cfg.DryRun => orders = <<>>

\* C6: a BUY order is placed only directly after the SELL order of the same
\* jump returned successfully, and a jump whose SELL order failed places no
\* BUY order.
C6_BuyOnlyAfterSuccessfulSell ==
    \A k \in DOMAIN orders :
        /\ orders[k].side = "BUY" =>
              /\ k > 1
              /\ orders[k - 1].side = "SELL"
              /\ orders[k - 1].ok
              /\ orders[k - 1].tick = orders[k].tick
        /\ (orders[k].side = "SELL" /\ ~orders[k].ok) =>
              \A j \in DOMAIN orders :
                  ~(orders[j].side = "BUY" /\ orders[j].tick = orders[k].tick)

\* Both a jump with its BUY after a successful SELL and a jump stopped by a
\* failed SELL have happened.
C6_Witness ==
    /\ \E k \in DOMAIN orders : orders[k].side = "BUY"
    /\ \E k \in DOMAIN orders : orders[k].side = "SELL" /\ ~orders[k].ok

(***************************************************************************)
(* Profit evaluation on its own (SpecEval)                                 *)
(*                                                                         *)
(* One call of calculateProfitForPair / Engine.calculateProfitRatio on a   *)
(* pair, or one run of the selection of findBestJump / Engine.scout over   *)
(* the pairs of a coin, on inputs drawn from small sets.                   *)
(***************************************************************************)

\* Price maps: each symbol absent, not a number, "0", "1" or "2".
EvalPriceMaps == UNION { [S -> {0 - 1, 0, 1, 2}] : S \in SUBSET Symbols }

\* Values of Pair.Ratio: 0 (never initialised), 1, 2 and 1/2.
RatioValues == { ZeroRatio, [n |-> 1, d |-> 1], [n |-> 2, d |-> 1], [n |-> 1, d |-> 2] }

\* Pairs between trade coins and pairs that end at the bridge.
EvalPairs ==
    { p \in [from : CoinSet, to : CoinSet \cup {Bridge}] : p.from # p.to }

\* Engine evaluates with calculateProfitRatio, the strategies with
\* calculateProfitForPair.
EvalStrategies == {"Engine", "Default"}

PairsFromSet(c) == { PairsFrom(c)[k] : k \in 1..Len(PairsFrom(c)) }

NoOut == [profit |-> ZeroProfit, err |-> FALSE]

\* LOT_SIZE rules tried for formatQuantity: steps 0.1, 0.010, 0.001, 1 and
\* the steps 0.005 and 5 that are no power of ten; minimums 0.001, 0.01, 1
\* and 5; quantities around 0, 1 and above 5.
StepSizes ==
    { <<"0", ".", "1">>, <<"0", ".", "0", "1", "0">>, <<"0", ".", "0", "0", "1">>,
      <<"1">>, <<"0", ".", "0", "0", "5">>, <<"5">> }

MinQtys == {1, 10, 1000, 5000}

QtyInputs == (0..25) \cup (995..1025) \cup {5000, 7000, 7500, 10000}

LotSizeRules ==
    { [lot |-> TRUE, stepSize |-> st, minQty |-> mq] : st \in StepSizes, mq \in MinQtys }

\* The executors tried for the sizing of the BUY: executeJumpTransaction
\* with orders and in dry-run, and the ExecuteJump that places orders.
BuyBuilds ==
    { [Strategy |-> "Engine", Helpers |-> 0, DryRun |-> FALSE, Quantity |-> 1000],
      [Strategy |-> "Engine", Helpers |-> 0, DryRun |-> TRUE, Quantity |-> 1000],
      [Strategy |-> "MultipleCoins", Helpers |-> 2, DryRun |-> FALSE, Quantity |-> 1000] }

\* The rules of the BUY symbol: none, or LOT_SIZE with a small minimum.
BuyRules ==
    { [lot |-> FALSE, stepSize |-> <<"1">>, minQty |-> 0] }
    \cup { r \in LotSizeRules : r.minQty <= 10 }

\* Prices of To/Bridge when the BUY is sized.
ToPrices == {1, 2, 3}

\* A cached rule whose filters hold no LOT_SIZE: stepSize stays "".
NoLotSizeRule == [lot |-> FALSE, stepSize |-> <<>>, minQty |-> 0]

\* Rule caches tried: the one of the model (no rule for BNBUSDT), an empty
\* one, and caches with a rule without LOT_SIZE.
RuleCaches ==
    { ExchangeRules,
      [s \in {} |-> NoLotSizeRule],
      (Sym("BNB") :> NoLotSizeRule) @@ ExchangeRules,
      [s \in Symbols |-> NoLotSizeRule] }

SymbolQtys == {0, 1, 5, 55, 1000, 1234}

EvalInputs ==
    { [kind |-> "pair", done |-> FALSE, strategy |-> st, pair |-> p, ratio |-> r,
       prices |-> m, out |-> NoOut] :
          st \in EvalStrategies, p \in EvalPairs, r \in RatioValues, m \in EvalPriceMaps }
    \cup
    UNION { { [kind |-> "list", done |-> FALSE, strategy |-> st, coin |-> c,
               ratios |-> rs, prices |-> m, opps |-> <<>>, best |-> NoOpp] :
                 st \in EvalStrategies, rs \in [PairsFromSet(c) -> RatioValues],
                 m \in EvalPriceMaps } : c \in CoinSet }
    \cup
    { [kind |-> "qty", done |-> FALSE, rule |-> r, q |-> q,
       out |-> [qty |-> 0, err |-> FALSE], again |-> [qty |-> 0, err |-> FALSE]] :
          r \in LotSizeRules, q \in QtyInputs }
    \cup
    { [kind |-> "buy", done |-> FALSE, build |-> b, sellQty |-> b.Quantity,
       cumQuote |-> b.Quantity * fill, sellPrice |-> sp, toPrice |-> tp, rule |-> r,
       bridgeQty |-> 0, out |-> [qty |-> 0, err |-> FALSE]] :
          b \in BuyBuilds, fill \in PriceLevels, sp \in PriceLevels,
          tp \in ToPrices, r \in BuyRules }
    \cup
    { [kind |-> "sym", done |-> FALSE, rules |-> rs, symbol |-> sy, q |-> q,
       out |-> [qty |-> 0, err |-> FALSE]] :
          rs \in RuleCaches, sy \in Symbols, q \in SymbolQtys }

InitEval ==
    /\ ev \in EvalInputs
    /\ cfg = [Strategy |-> "Engine", Helpers |-> 0, DryRun |-> TRUE, Quantity |-> 1000]
    /\ pc = "start"
    /\ tick = 0
    /\ currentCoin = ""
    /\ lastUsedCoinSymbol = ""
    /\ pairRatio = [p \in PairSet |-> ZeroRatio]
    /\ trades = <<>>
    /\ orders = <<>>
    /\ prices = NoPrices
    /\ jump = NoJump
    /\ jumpLog = <<>>
    /\ scoutRet = "none"
    /\ fetches = NoFetch
    /\ cancelled = NotCancelled
    /\ pending = FALSE
    /\ active = {}
    /\ cpc = "idle"
    /\ req = [method |-> "GET", url |-> "/time"]
    /\ burst = 5
    /\ i = 0
    /\ tokens = 0
    /\ attempts = <<>>
    /\ waits = <<>>
    /\ result = [resp |-> "none", err |-> "none"]

\* profit, err := calculateProfitForPair(ctx, &pair, prices)
EvaluatePair ==
    /\ ev.kind = "pair"
    /\ ~ev.done
    /\ ev' = [ev EXCEPT !.done = TRUE,
                        !.out = Evaluate(ev.strategy, ev.pair, ev.ratio, ev.prices)]
    /\ UNCHANGED <<cvars, evars, rvars>>

\* findBestJump: every pair of the coin is evaluated in its own goroutine
\* and the collector keeps the best of what arrives.
FindBest ==
    /\ ev.kind = "list"
    /\ ~ev.done
    /\ LET opps == Opportunities(ev.strategy, PairsFrom(ev.coin), ev.ratios, ev.prices) IN
       \E d \in ArrivalOrders(opps) :
           ev' = [ev EXCEPT !.done = TRUE, !.opps = opps, !.best = CollectBest(d, NoOpp)]
    /\ UNCHANGED <<cvars, evars, rvars>>

\* r, err := formatQuantity(ctx, symbol, q) and, when r was returned,
\* formatQuantity(ctx, symbol, r).
FormatQuantity ==
    /\ ev.kind = "qty"
    /\ ~ev.done
    /\ LET out == formatWithRule(ev.rule, ev.q) IN
       ev' = [ev EXCEPT !.done = TRUE,
                        !.out = out,
                        !.again = IF out.err THEN out ELSE formatWithRule(ev.rule, out.qty)]
    /\ UNCHANGED <<cvars, evars, rvars>>

\* Step 2 of a jump up to the quantity handed to CreateOrder: the bridge
\* amount of the sell leg divided by the To price and formatted.
SizeBuy ==
    /\ ev.kind = "buy"
    /\ ~ev.done
    /\ LET bridgeQty == BridgeObtained(ev.build, ev.sellQty, ev.sellPrice, ev.cumQuote) IN
       ev' = [ev EXCEPT !.done = TRUE,
                        !.bridgeQty = bridgeQty,
                        !.out = formatWithRule(ev.rule, bridgeQty \div ev.toPrice)]
    /\ UNCHANGED <<cvars, evars, rvars>>

\* formatQuantity(ctx, symbol, q) on the rules cached in ctx.
FormatForSymbol ==
    /\ ev.kind = "sym"
    /\ ~ev.done
    /\ ev' = [ev EXCEPT !.done = TRUE,
                        !.out = formatQuantityIn(ev.rules, ev.symbol, ev.q)]
    /\ UNCHANGED <<cvars, evars, rvars>>

NextEval == EvaluatePair \/ FindBest \/ FormatQuantity \/ SizeBuy \/ FormatForSymbol

SpecEval == InitEval /\ [][NextEval]_vars

(***************************************************************************)
(* The fan-out and fan-in of one evaluation, goroutine by goroutine        *)
(* (SpecFan): the loop that starts one goroutine per pair, the goroutine   *)
(* that waits for them and closes the channel, and the range loop that     *)
(* collects.                                                               *)
(***************************************************************************)

\* Pairs handed to one evaluation, at most.
MaxPairs == 3

\* make(chan tradeOpportunity, len(pairs))
ChannelCapacityNone(n) == 0

ChannelCapacity(n) == n

\* Stored ratios: none initialised, or initialised from a price map.
FanRatios ==
    { [p \in PairSet |-> ZeroRatio] }
    \cup { InitialRatios([p \in PairSet |-> ZeroRatio], m) : m \in Snapshots }

FanInputs ==
    { [kind |-> "fan", done |-> FALSE, strategy |-> st,
       pairs |-> SubSeq(AllPairs, 1, n), ratios |-> rs, prices |-> m,
       main |-> "spawn", spawned |-> 0, wg |-> 0,
       wpc |-> [k \in 1..n |-> "none"],
       chan |-> <<>>, sent |-> 0, closer |-> "none", closes |-> 0,
       received |-> <<>>, best |-> NoOpp] :
          st \in EvalStrategies, n \in 0..MaxPairs, rs \in FanRatios, m \in Snapshots }

InitFan ==
    /\ ev \in FanInputs
    /\ cfg = [Strategy |-> "Engine", Helpers |-> 0, DryRun |-> TRUE, Quantity |-> 1000]
    /\ pc = "start"
    /\ tick = 0
    /\ currentCoin = ""
    /\ lastUsedCoinSymbol = ""
    /\ pairRatio = [p \in PairSet |-> ZeroRatio]
    /\ trades = <<>>
    /\ orders = <<>>
    /\ prices = NoPrices
    /\ jump = NoJump
    /\ jumpLog = <<>>
    /\ scoutRet = "none"
    /\ fetches = NoFetch
    /\ cancelled = NotCancelled
    /\ pending = FALSE
    /\ active = {}
    /\ cpc = "idle"
    /\ req = [method |-> "GET", url |-> "/time"]
    /\ burst = 5
    /\ i = 0
    /\ tokens = 0
    /\ attempts = <<>>
    /\ waits = <<>>
    /\ result = [resp |-> "none", err |-> "none"]

\* if len(pairs) == 0 { return nil, nil } of findBestJump; Engine.scout has
\* no such return.
ReturnsEarly == ev.strategy # "Engine" /\ Len(ev.pairs) = 0

\* if len(pairs) == 0 { return nil, nil }
EarlyReturn ==
    /\ ev.kind = "fan"
    /\ ev.main = "spawn"
    /\ ReturnsEarly
    /\ ev' = [ev EXCEPT !.main = "returned", !.done = TRUE]
    /\ UNCHANGED <<cvars, evars, rvars>>

\* for _, p := range pairs { wg.Add(1); go func(pair) {...}(p) }
Spawn ==
    /\ ev.kind = "fan"
    /\ ev.main = "spawn"
    /\ ~ReturnsEarly
    /\ ev.spawned < Len(ev.pairs)
    /\ ev' = [ev EXCEPT !.spawned = @ + 1, !.wg = @ + 1,
                        !.wpc[ev.spawned + 1] = "eval"]
    /\ UNCHANGED <<cvars, evars, rvars>>

\* go func() { wg.Wait(); close(opportunities) }() and the entry of the
\* range loop.
StartCloser ==
    /\ ev.kind = "fan"
    /\ ev.main = "spawn"
    /\ ~ReturnsEarly
    /\ ev.spawned = Len(ev.pairs)
    /\ ev' = [ev EXCEPT !.closer = "wait", !.main = "range"]
    /\ UNCHANGED <<cvars, evars, rvars>>

\* What the goroutine of pair k computes.
WorkerResult(k) ==
    Evaluate(ev.strategy, ev.pairs[k], ev.ratios[ev.pairs[k]], ev.prices)

\* The goroutine of pair k evaluates: on an error or a profit <= 0 it
\* returns (defer wg.Done()), otherwise it goes on to send.
WorkerEvaluate(k) ==
    /\ ev.kind = "fan"
    /\ ev.wpc[k] = "eval"
    /\ IF ~WorkerResult(k).err /\ ProfitPositive(WorkerResult(k).profit)
       THEN ev' = [ev EXCEPT !.wpc[k] = "send"]
       ELSE ev' = [ev EXCEPT !.wpc[k] = "done", !.wg = @ - 1]
    /\ UNCHANGED <<cvars, evars, rvars>>

\* opportunities <- tradeOpportunity{Pair: pair, Profit: profit}, which
\* needs room in the channel, and the return (defer wg.Done()).
WorkerSend(k) ==
    /\ ev.kind = "fan"
    /\ ev.wpc[k] = "send"
    /\ Len(ev.chan) < ChannelCapacity(Len(ev.pairs))
    /\ ev' = [ev EXCEPT !.chan = Append(@, [found |-> TRUE, pair |-> ev.pairs[k],
                                            profit |-> WorkerResult(k).profit]),
                        !.sent = @ + 1,
                        !.wpc[k] = "done",
                        !.wg = @ - 1]
    /\ UNCHANGED <<cvars, evars, rvars>>

\* wg.Wait() returns and close(opportunities)
CloseChannel ==
    /\ ev.kind = "fan"
    /\ ev.closer = "wait"
    /\ ev.wg = 0
    /\ ev' = [ev EXCEPT !.closer = "done", !.closes = @ + 1]
    /\ UNCHANGED <<cvars, evars, rvars>>

\* for opp := range opportunities: one value is received and compared.
Receive ==
    /\ ev.kind = "fan"
    /\ ev.main = "range"
    /\ ev.chan # <<>>
    /\ ev' = [ev EXCEPT !.chan = Tail(@),
                        !.received = Append(@, Head(ev.chan)),
                        !.best = CollectBest(<<Head(ev.chan)>>, ev.best)]
    /\ UNCHANGED <<cvars, evars, rvars>>

\* The range loop ends on the closed and drained channel.
RangeEnds ==
    /\ ev.kind = "fan"
    /\ ev.main = "range"
    /\ ev.chan = <<>>
    /\ ev.closes > 0
    /\ ev' = [ev EXCEPT !.main = "returned", !.done = TRUE]
    /\ UNCHANGED <<cvars, evars, rvars>>

NextFan ==
    \/ EarlyReturn
    \/ Spawn
    \/ StartCloser
    \/ \E k \in 1..MaxPairs : k <= Len(ev.pairs) /\ WorkerEvaluate(k)
    \/ \E k \in 1..MaxPairs : k <= Len(ev.pairs) /\ WorkerSend(k)
    \/ CloseChannel
    \/ Receive
    \/ RangeEnds

\* Every goroutine that can run is run in the end.
SpecFan == InitFan /\ [][NextFan]_vars /\ WF_vars(NextFan)

\* The price of a symbol is missing from the map, spells no number, or is 0.
BadPrice(m, sym) == sym \notin DOMAIN m \/ m[sym] <= 0

BadPair(p, m) == BadPrice(m, Sym(p.from)) \/ BadPrice(m, Sym(p.to))

\* (price(From/B) / price(To/B)) * (1 - fee_rate)^2 / Ratio - 1 - margin/100,
\* as the fraction num / (den * full * 100); a zero Ratio is left out (the
\* float64 quotient is +Inf).
ClaimedValue(p, ratio, m) ==
    LET pf   == m[Sym(p.from)]
        pt   == m[Sym(p.to)]
        keep == Trading.FeeDen - Trading.FeeNum
        full == Trading.FeeDen * Trading.FeeDen
    IN  [num |-> pf * ratio.d * keep * keep * 100
                 - pt * ratio.n * full * (100 + Trading.ScoutMargin),
         den |-> pt * ratio.n]

\* That value is > 0.
ClaimedPositive(p, ratio, m) ==
    ratio.n = 0 \/ ClaimedValue(p, ratio, m).num > 0

OfferedPairs == { ev.opps[k].pair : k \in 1..Len(ev.opps) }

\* C18: a pair with a missing, unparsable or zero leg price gets an
\* evaluation error from calculateProfitForPair and is left out of the
\* selection, while every other pair of the tick is still evaluated and
\* offered when profitable, and a best pair is still found among them.
C18_BadPairExcludedOthersEvaluated ==
    /\ (ev.done /\ ev.kind = "pair" /\ ev.strategy = "Default"
            /\ ev.pair.to # Bridge /\ BadPair(ev.pair, ev.prices))
          => ev.out.err
    /\ (ev.done /\ ev.kind = "list") =>
          /\ \A p \in PairsFromSet(ev.coin) :
                BadPair(p, ev.prices) =>
                    /\ p \notin OfferedPairs
                    /\ ~(ev.best.found /\ ev.best.pair = p)
          /\ \A p \in PairsFromSet(ev.coin) :
                (~BadPair(p, ev.prices) /\ ClaimedPositive(p, ev.ratios[p], ev.prices))
                    => /\ p \in OfferedPairs
                       /\ ev.best.found

\* One pair of the coin has a bad price and the other was offered and chosen.
C18_Witness ==
    /\ ev.done
    /\ ev.kind = "list"
    /\ ev.strategy = "Default"
    /\ \E p \in PairsFromSet(ev.coin) : BadPair(p, ev.prices)
    /\ ev.best.found

\* C19: a pair whose To asset is the bridge evaluates to exactly 0 with no
\* error whatever the prices, so it is never offered.
C19_ToBridgeIsZeroNoError ==
    (ev.done /\ ev.kind = "pair" /\ ev.pair.to = Bridge)
        => /\ ~ev.out.err
           /\ ev.out.profit = ZeroProfit
           /\ ~ProfitPositive(ev.out.profit)

\* A pair to the bridge evaluated with the From price present (the To price
\* is absent).
C19_Witness ==
    /\ ev.done
    /\ ev.kind = "pair"
    /\ ev.pair.to = Bridge
    /\ ev.strategy = "Default"
    /\ Sym(ev.pair.from) \in DOMAIN ev.prices
    /\ ev.prices[Sym(ev.pair.from)] = 2
    /\ Sym(ev.pair.to) \notin DOMAIN ev.prices

\* C20: for a pair with To # Bridge and both leg prices present and
\* non-zero the evaluation succeeds with the value
\* (price(From/B) / price(To/B)) * (1 - fee_rate)^2 / Ratio - 1 - margin/100,
\* whichever evaluator computes it, and the pair is offered as an
\* opportunity exactly when that value is > 0.
C20_ProfitFormulaAndOffer ==
    /\ (ev.done /\ ev.kind = "pair" /\ ev.pair.to # Bridge
            /\ ~BadPair(ev.pair, ev.prices))
          => /\ ~ev.out.err
             /\ ev.ratio.n > 0 =>
                   ev.out.profit.num * ClaimedValue(ev.pair, ev.ratio, ev.prices).den
                     = ClaimedValue(ev.pair, ev.ratio, ev.prices).num * ev.out.profit.den
             /\ ProfitPositive(ev.out.profit)
                   <=> ClaimedPositive(ev.pair, ev.ratio, ev.prices)
    /\ (ev.done /\ ev.kind = "list") =>
          \A p \in PairsFromSet(ev.coin) :
              ~BadPair(p, ev.prices) =>
                  (p \in OfferedPairs <=> ClaimedPositive(p, ev.ratios[p], ev.prices))

\* A profitable pair evaluated by calculateProfitForPair from a non-zero
\* ratio.
C20_Witness ==
    /\ ev.done
    /\ ev.kind = "pair"
    /\ ev.strategy = "Default"
    /\ ev.pair.to # Bridge
    /\ ~BadPair(ev.pair, ev.prices)
    /\ ev.ratio.n > 0
    /\ ProfitPositive(ev.out.profit)
    /\ ~ev.out.err

\* What the evaluation of pair p of the list returned.
PairResult(p) == Evaluate(ev.strategy, p, ev.ratios[p], ev.prices)

\* The pairs of the list whose profit is > 0.
PositivePairs ==
    { p \in PairsFromSet(ev.coin) :
          ~PairResult(p).err /\ ProfitPositive(PairResult(p).profit) }

\* C21: in whatever order the evaluation goroutines deliver, the selected
\* opportunity has the highest profit among the pairs with profit > 0,
\* nothing is selected exactly when there is no such pair, and when the
\* positive profits are pairwise distinct the selected pair is the one with
\* the strictly highest profit, whatever the order.
C21_BestInEveryInterleaving ==
    (ev.done /\ ev.kind = "list") =>
        /\ ev.best.found <=> PositivePairs # {}
        /\ ev.best.found =>
              /\ ev.best.pair \in PositivePairs
              /\ ev.best.profit = PairResult(ev.best.pair).profit
              /\ \A q \in PositivePairs :
                    ~ProfitGreater(PairResult(q).profit, ev.best.profit)
        /\ (\A a, b \in PositivePairs :
                a # b => \/ ProfitGreater(PairResult(a).profit, PairResult(b).profit)
                         \/ ProfitGreater(PairResult(b).profit, PairResult(a).profit))
              => \A q \in PositivePairs :
                    q # ev.best.pair
                       => ProfitGreater(ev.best.profit, PairResult(q).profit)

\* Two opportunities were delivered and the better one is chosen although it
\* is the later pair of the table.
C21_Witness ==
    /\ ev.done
    /\ ev.kind = "list"
    /\ Len(ev.opps) = 2
    /\ ProfitGreater(ev.opps[2].profit, ev.opps[1].profit)
    /\ ev.best.pair = ev.opps[2].pair

(***************************************************************************)
(* Properties of the tick and of the stored records                        *)
(***************************************************************************)

\* No candidate pair of the tick has profit > 0 on the price map m.
NoPositiveCandidate(m) ==
    \A k \in 1..Len(Candidates) :
        \/ BadPair(Candidates[k], m)
        \/ ~ClaimedPositive(Candidates[k], pairRatio[Candidates[k]], m)

\* C22: a tick whose prices were fetched and in which no candidate pair has
\* profit > 0 ends in scout returning nil with no order placed, no jump
\* started, the held asset and every pair ratio unchanged and no trade
\* record created.
C22_NoOpportunityNoEffect ==
    [][ (pc = "scout" /\ fetches'.first = "ok" /\ NoPositiveCandidate(prices'))
            => /\ pc' = "idle"
               /\ scoutRet' = "nil"
               /\ orders' = orders
               /\ jumpLog' = jumpLog
               /\ trades' = trades
               /\ pairRatio' = pairRatio
               /\ currentCoin' = currentCoin
               /\ lastUsedCoinSymbol' = lastUsedCoinSymbol ]_vars

\* The second tick found nothing on its prices after a first tick whose
\* jump placed both orders.
C22_Witness ==
    /\ pc = "idle"
    /\ tick = 2
    /\ scoutRet = "nil"
    /\ fetches = [n |-> 1, first |-> "ok"]
    /\ prices \in Snapshots
    /\ NoPositiveCandidate(prices)
    /\ Len(jumpLog) = 1
    /\ LastJump.tick = 1
    /\ Len(orders) = 2

\* C23: the evaluation phase of a tick, up to and including the choice of
\* the best opportunity, writes no pair ratio; within a tick a ratio
\* changes only in the step that completes the winning jump.
C23_EvaluationWritesNoRatio ==
    /\ [][ pc = "scout" => pairRatio' = pairRatio ]_vars
    /\ [][ (pairRatio' # pairRatio /\ pc # "start")
              => /\ pc = "buy"
                 /\ pc' = "idle"
                 /\ jumpLog'[Len(jumpLog')].outcome = "ok" ]_vars

\* The evaluation of the second tick chose a jump on a snapshot from which
\* a stored ratio of a candidate differs.
C23_Witness ==
    /\ pc = "sell"
    /\ tick = 2
    /\ prices \in Snapshots
    /\ \E k \in 1..Len(Candidates) :
          pairRatio[Candidates[k]] # RatioFromPrices(pairRatio[Candidates[k]], Candidates[k], prices)

\* The step that completes a jump with both legs done.
JumpSucceeds == JumpEnds /\ jumpLog'[Len(jumpLog')].outcome = "ok"

C25_RatioChangesOnlyOnJumpFromItsAsset ==
    [][ pc # "start"
            => \A p \in PairSet :
                  pairRatio'[p] # pairRatio[p]
                      => (JumpSucceeds /\ jump.pair.from = p.from) ]_vars

\* C26: from the end of initialization on, the table of the current
\* holding has exactly one row.
C26_ExactlyOneHoldingRow ==
    pc \in {"idle", "scout", "sell", "buy"} => CurrentCoinRows = 1

\* The step appends exactly one trade record, of this side, symbol and
\* profit.
AppendsTrade(side, symbol, profit) ==
    /\ Len(trades') = Len(trades) + 1
    /\ SubSeq(trades', 1, Len(trades)) = trades
    /\ trades'[Len(trades')].Type = side
    /\ trades'[Len(trades')].Symbol = symbol
    /\ trades'[Len(trades')].Profit = profit

\* C27: a jump whose two legs succeed has appended exactly two trade
\* records when it completes, the SELL of From/Bridge with no profit in its
\* sell step and the BUY of To/Bridge with the evaluated profit in its buy
\* step; a jump that fails before its sell order is placed appends none.
C27_TwoTradesPerSuccessfulJump ==
    /\ [][ JumpSucceeds
              => /\ AppendsTrade("BUY", Sym(jump.pair.to), jump.profit)
                 /\ Len(trades) >= 1
                 /\ trades[Len(trades)].Type = "SELL"
                 /\ trades[Len(trades)].Symbol = Sym(jump.pair.from)
                 /\ trades[Len(trades)].Profit = ZeroProfit ]_vars
    /\ [][ pc = "sell" => Len(trades') <= Len(trades) + 1 ]_vars
    /\ [][ (pc = "sell" /\ pc' = "idle"
                /\ jumpLog'[Len(jumpLog')].outcome \in {"sell_sizing", "not_implemented"})
              => trades' = trades ]_vars

\* C29: every leg of a completed jump, placed as an order or simulated in
\* dry-run, has a trade record, and the record of a simulated leg has its
\* simulation flag set.
C29_EveryLegRecordedSimulationFlagged ==
    /\ Len(trades) >= 2 * Cardinality({ k \in DOMAIN jumpLog : jumpLog[k].outcome = "ok" })
    /\ ~PlacesOrders(cfg) => \A k \in DOMAIN trades : trades[k].IsSimulation

\* C30: for a symbol with a lot-size rule of any step size and a quantity
\* q >= the minimum, the quantity r that formatQuantity returns is <= q,
\* is an integer multiple of the step size, and is returned again by
\* formatQuantity applied to r.
C30_RoundedToStepAndIdempotent ==
    (ev.done /\ ev.kind = "qty" /\ ev.q >= ev.rule.minQty /\ ~ev.out.err)
        => /\ ev.out.qty <= ev.q
           /\ ev.out.qty % Thousandths(ev.rule.stepSize, 1) = 0
           /\ ev.again = [qty |-> ev.out.qty, err |-> FALSE]

\* The variants that hold one asset at a time.
SingleHolding == cfg.Strategy \in {"Engine", "Default"}

\* The step places an order of this side.
PlacesOrder(side) ==
    /\ Len(orders') = Len(orders) + 1
    /\ orders'[Len(orders')].side = side

\* C31: in the single-holding variants every pair a tick evaluates, and so
\* the pair of the jump it executes, has its From asset equal to the asset
\* recorded as held when the tick started, and every SELL order is for that
\* asset.
C31_OnlyPairsFromHeld ==
    /\ [](SingleHolding /\ pc = "scout"
            => \A k \in 1..Len(Candidates) : Candidates[k].from = Held)
    /\ [][ (SingleHolding /\ pc \in {"idle", "scout", "sell"} /\ pc' # "idle")
              => Held' = Held ]_vars
    /\ [][ (SingleHolding /\ pc = "scout" /\ pc' = "sell")
              => jump'.pair.from = Held ]_vars
    /\ [][ (SingleHolding /\ PlacesOrder("SELL"))
              => orders'[Len(orders')].symbol = Sym(Held) ]_vars

\* In its second tick a single-holding variant that jumped in the first
\* tick has placed the SELL of the asset it then held.
C31_Witness ==
    /\ SingleHolding
    /\ tick = 2
    /\ pc = "buy"
    /\ Len(jumpLog) = 1
    /\ jumpLog[1].outcome = "ok"
    /\ Held = jumpLog[1].pair.to
    /\ jump.pair.from = Held
    /\ Len(orders) = 3
    /\ orders[3].side = "SELL"
    /\ orders[3].symbol = Sym(Held)

\* The profit the pair p has on the price map m with the stored ratios, on
\* the scale of ProfitOf; +Inf for a zero ratio.
ClaimedProfit(p, m) ==
    IF pairRatio[p].n = 0 THEN [num |-> 1, den |-> 0]
    ELSE ClaimedValue(p, pairRatio[p], m)

\* The stored pairs with profit > 0 on the price map m.
PositiveStoredPairs(m) ==
    { p \in PairSet : ~BadPair(p, m) /\ ClaimedPositive(p, pairRatio[p], m) }

\* The SELL orders placed in tick t.
SellsOfTick(t) ==
    { k \in DOMAIN orders : orders[k].tick = t /\ orders[k].side = "SELL" }

\* C32: in the multi-asset variant a tick evaluates every stored pair,
\* whatever is held: it starts a jump exactly when some stored pair has
\* profit > 0, the jump is for a pair whose profit is the highest of all
\* stored pairs, and a tick executes at most one jump.
C32_GlobalBestOfAllPairs ==
    /\ [][ (cfg.Strategy = "MultipleCoins" /\ pc = "scout" /\ fetches'.first = "ok")
              => /\ pc' = "sell" <=> PositiveStoredPairs(prices') # {}
                 /\ pc' = "sell" =>
                       /\ jump'.pair \in PositiveStoredPairs(prices')
                       /\ \A p \in PositiveStoredPairs(prices') :
                             ~ProfitGreater(ClaimedProfit(p, prices'),
                                            ClaimedProfit(jump'.pair, prices')) ]_vars
    /\ [](cfg.Strategy = "MultipleCoins"
            => /\ \A a, b \in DOMAIN jumpLog :
                      a # b => jumpLog[a].tick # jumpLog[b].tick
               /\ \A t \in 1..MaxTicks + 1 : Cardinality(SellsOfTick(t)) <= 1)

\* The multi-asset variant chose a jump from ETH, not the first coin of the
\* table, while a pair from another asset was profitable too but less.
C32_Witness ==
    /\ cfg.Strategy = "MultipleCoins"
    /\ pc = "sell"
    /\ prices \in Snapshots
    /\ jump.pair.from = "ETH"
    /\ \E p \in PositiveStoredPairs(prices) :
          /\ p.from # "ETH"
          /\ ProfitGreater(ClaimedProfit(jump.pair, prices), ClaimedProfit(p, prices))

\* The positions of the process before its scouting loop is entered.
BeforeLoop ==
    {"boot", "start", "probe_failed", "rules_failed", "prices_failed", "fatal"}

\* C33: when the connectivity probe or the fetch of the exchange rules
\* fails at start-up the process ends and never scouts; the loop is entered
\* only from a completed initialization, and a tick starts only inside the
\* loop.
C33_StartupFailureAborts ==
    /\ [][ (pc = "probe_failed" \/ pc = "rules_failed") => pc' = "fatal" ]_vars
    /\ [][ pc = "fatal" => pc' = "fatal" ]_vars
    /\ [](pc \in BeforeLoop
            => tick = 0 /\ fetches = NoFetch /\ orders = <<>> /\ jumpLog = <<>>)
    /\ [][ (pc \in BeforeLoop /\ pc' \notin BeforeLoop)
              => pc = "start" /\ pc' = "idle" ]_vars
    /\ [][ tick' # tick => pc = "idle" ]_vars

\* The process has ended at start-up before an initial coin was chosen: the
\* probe or the fetch of the exchange rules had failed.
C33_Witness ==
    /\ pc = "fatal"
    /\ cfg.Strategy = "Engine"
    /\ currentCoin = ""
    /\ tick = 0

\* The bridge amount the sell leg of the sized jump brought in: what the
\* exchange reports for the SELL order, or the simulated amount when no
\* order is sent.
ProceedsOfSell ==
    IF PlacesOrders(ev.build) THEN ev.cumQuote ELSE ev.bridgeQty

\* q rounded down to a multiple of the rule's step size.
FloorToStep(rule, q) ==
    IF ~rule.lot THEN q
    ELSE (q \div Thousandths(rule.stepSize, 1)) * Thousandths(rule.stepSize, 1)

\* C34: the quantity of the BUY order is the bridge proceeds of the sell
\* leg divided by the price of To/Bridge and rounded down to the step size
\* of To/Bridge, so quantity times price is at most the proceeds.
C34_BuyWithinProceeds ==
    (ev.done /\ ev.kind = "buy" /\ ~ev.out.err)
        => /\ ev.out.qty = FloorToStep(ev.rule, ProceedsOfSell \div ev.toPrice)
           /\ ev.out.qty * ev.toPrice <= ProceedsOfSell

\* C35: a pair whose stored ratio is still zero is never the pair of a
\* jump: no tick selects it as its opportunity.
C35_ZeroRatioNeverSelected ==
    pc \in {"sell", "buy"} => pairRatio[jump.pair].n # 0

\* The goroutines of the evaluation, one per pair.
FanWorkers == 1..Len(ev.pairs)

\* The goroutines whose evaluation gives a profit > 0.
FanSenders ==
    { k \in FanWorkers : ~WorkerResult(k).err /\ ProfitPositive(WorkerResult(k).profit) }

\* C37: the fan-out and fan-in always ends, for any number of pairs, zero
\* included, and any interleaving: a goroutine about to send always finds
\* room in the channel, the channel is closed once and only when every
\* goroutine has finished, and the collector returns, having received
\* every result that was sent.
C37_FanInTerminates ==
    /\ [](\A k \in FanWorkers :
              ev.wpc[k] = "send" => Len(ev.chan) < ChannelCapacity(Len(ev.pairs)))
    /\ [](/\ ev.closes <= 1
          /\ ev.closes = 1 => /\ ev.spawned = Len(ev.pairs)
                              /\ \A k \in FanWorkers : ev.wpc[k] = "done")
    /\ []((ev.main = "returned" /\ ~ReturnsEarly)
            => /\ ev.closes = 1
               /\ ev.chan = <<>>
               /\ ev.sent = Cardinality(FanSenders)
               /\ Len(ev.received) = ev.sent
               /\ ev.best = CollectBest(ev.received, NoOpp))
    /\ <>(ev.main = "returned")

\* Three goroutines each sent an opportunity and the collector has returned
\* with all three.
C37_Witness ==
    /\ ev.kind = "fan"
    /\ ev.main = "returned"
    /\ Len(ev.pairs) = 3
    /\ Len(ev.received) = 3
    /\ ev.closes = 1

\* C39: for a symbol with no cached exchange rule, or whose rule has no
\* LOT_SIZE filter, formatQuantity returns the quantity it was given and no
\* error.
C39_NoRuleReturnsInput ==
    (ev.done /\ ev.kind = "sym"
        /\ (ev.symbol \notin DOMAIN ev.rules \/ ~ev.rules[ev.symbol].lot))
        => ev.out = [qty |-> ev.q, err |-> FALSE]

\* A quantity with three decimals was formatted for a symbol that has no
\* rule in a cache that holds rules for other symbols.
C39_Witness ==
    /\ ev.done
    /\ ev.kind = "sym"
    /\ ev.symbol \notin DOMAIN ev.rules
    /\ DOMAIN ev.rules # {}
    /\ ev.q = 1234
    /\ ev.out.qty = 1234
    /\ ~ev.out.err

(***************************************************************************)
(* The trader started again on its database (SpecRestart)                  *)
(***************************************************************************)

\* The tables after database.AutoMigrate: trades, current_coins, pairs and
\* coins are dropped; trades, pairs and coins are created again, empty but
\* for the coins of the configuration.
AutoMigrate ==
    /\ trades' = <<>>
    /\ currentCoin' = ""
    /\ pairRatio' = [p \in PairSet |-> ZeroRatio]

\* main runs again after the process ended between two ticks or died at
\* start-up: NewDatabase migrates, and the engine and its strategy are
\* built anew.  The orders at the exchange and the log of the jumps stay.
Restart ==
    /\ pc \in {"idle", "fatal"}
    /\ AutoMigrate
    /\ pc' = "boot"
    /\ lastUsedCoinSymbol' = ""
    /\ prices' = NoPrices
    /\ jump' = NoJump
    /\ scoutRet' = "none"
    /\ fetches' = NoFetch
    /\ UNCHANGED <<cfg, tick, orders, jumpLog, cvars, rvars, ev>>

\* main of cmd/trader with the strategy that scouts all pairs and the
\* executor that records trades.
InitRestart ==
    /\ Init
    /\ cfg = [Strategy |-> "MultipleCoins", Helpers |-> 2, DryRun |-> FALSE, Quantity |-> 1000]

NextRestart == Connect \/ Abort \/ Initialize \/ Tick \/ Scout \/ SellLeg \/ BuyLeg \/ Restart

SpecRestart == InitRestart /\ [][NextRestart]_vars

\* C28: a trade record, once created, is never modified or deleted: in
\* every step, process start included, the records present stay as they are
\* and the table only grows.
C28_TradesOnlyGrow ==
    [][ /\ Len(trades') >= Len(trades)
        /\ SubSeq(trades', 1, Len(trades)) = trades ]_vars

(***************************************************************************)
(* RestClient.doRequest                                                    *)
(***************************************************************************)

\* const maxRetries = 3
maxRetries == 3

\* The endpoints the four public methods call doRequest with.
Requests ==
    { [method |-> "GET",  url |-> "/time"],
      [method |-> "GET",  url |-> "/ticker/price"],
      [method |-> "GET",  url |-> "/exchangeInfo"],
      [method |-> "POST", url |-> "/order"] }

\* rate_limit_burst: 5 is the default; 0 makes every limiter.Wait fail
\* ("Wait(n=1) exceeds limiter's burst").
Bursts == {0, 5}

\* Values of the Retry-After header: absent, not a number, or seconds.
NoHeader == [form |-> "absent", n |-> 0]

RetryAfterValues ==
    { NoHeader, [form |-> "text", n |-> 0],
      [form |-> "int", n |-> 0], [form |-> "int", n |-> 2] }

Statuses == {200, 304, 400, 418, 429, 500, 503}

\* The Retry-After values tried with each status.
HeadersFor(s) ==
    IF s \in {429, 503} THEN RetryAfterValues
    ELSE IF s = 418 THEN {NoHeader, [form |-> "int", n |-> 2]}
    ELSE {NoHeader}

\* What req.Execute can hand back: (resp, err).
\*   nores  : err # nil and resp = nil (the request was never built or sent)
\*   neterr : err # nil with a non-nil Response that wraps no HTTP response;
\*            its StatusCode() is 0 (the transport failed)
\*   http   : err = nil and an HTTP response with a status and headers
Outcomes ==
    { [kind |-> "nores",  status |-> 0, retryAfter |-> NoHeader],
      [kind |-> "neterr", status |-> 0, retryAfter |-> NoHeader] }
    \cup
    { o \in [kind : {"http"}, status : Statuses, retryAfter : RetryAfterValues] :
          o.retryAfter \in HeadersFor(o.status) }

ErrIsNil(o) == o.kind = "http"

RespIsNil(o) == o.kind = "nores"

\* resty's Response.IsError: the status is 400 or above.
IsError(o) == o.status > 399

\* err == nil && !resp.IsError()
IsSuccess(o) == ErrIsNil(o) /\ ~IsError(o)

\* strconv.Atoi(retryAfterHeader): err == nil exactly for an integer.
AtoiOk(h) == h.form = "int"

\* The status tests of the retry analysis.
IsRateLimitStatus(s) == s = 429 \/ s = 418

IsServerErrorStatus(s) == s >= 500

\* shouldRetry after a failed attempt.
ShouldRetry(o) ==
    IF ~RespIsNil(o)
    THEN IF IsRateLimitStatus(o.status) THEN TRUE
         ELSE IsServerErrorStatus(o.status)
    ELSE TRUE

\* retryAfter as read from the response (0 when nothing was read).
HeaderRetryAfter(o) ==
    IF ~RespIsNil(o) /\ IsRateLimitStatus(o.status) /\ AtoiOk(o.retryAfter)
    THEN o.retryAfter.n
    ELSE 0

\* math.Pow(2, float64(i))
Pow2Linear(n) == n + 1

Pow2(n) == IF n = 0 THEN 1 ELSE IF n = 1 THEN 2 ELSE IF n = 2 THEN 4 ELSE 8

\* The time slept before the next loop iteration.
BackoffSeconds(o, k) ==
    IF HeaderRetryAfter(o) = 0 THEN Pow2(k) ELSE HeaderRetryAfter(o)

\* for i := 0; i < maxRetries; i++
LoopContinuesOffByOne(k) == k <= maxRetries

LoopContinues(k) == k < maxRetries

\* Where the loop goes when its condition holds: the limiter comes first.
LoopBodyStartNoLimiter == "exec"

LoopBodyStart == "wait"

\* The context the public methods hand to doRequest: context.Background(),
\* not the context of main that the shutdown signal cancels.
CallContext == "background"

\* <-ctx.Done() can proceed.
CtxDone(c) == c = "process" /\ cancelled.fired

\* limiter.Wait(ctx): fails when one token exceeds the burst or the
\* context is done.
LimiterWaitOk(b) == b >= 1 /\ ~CtxDone(CallContext)

NoResult == [resp |-> "none", err |-> "none"]

ClientInit ==
    /\ cpc = "idle"
    /\ req = [method |-> "GET", url |-> "/time"]
    /\ burst \in Bursts
    /\ i = 0
    /\ tokens = 0
    /\ attempts = <<>>
    /\ waits = <<>>
    /\ result = NoResult
    /\ cfg = [Strategy |-> "Engine", Helpers |-> 0, DryRun |-> TRUE, Quantity |-> 1000]
    /\ pc = "start"
    /\ tick = 0
    /\ currentCoin = ""
    /\ lastUsedCoinSymbol = ""
    /\ pairRatio = [p \in PairSet |-> ZeroRatio]
    /\ trades = <<>>
    /\ orders = <<>>
    /\ prices = NoPrices
    /\ jump = NoJump
    /\ jumpLog = <<>>
    /\ scoutRet = "none"
    /\ fetches = NoFetch
    /\ cancelled = NotCancelled
    /\ pending = FALSE
    /\ active = {}
    /\ ev = NoEval

\* A public method builds its request and enters doRequest.
Call ==
    /\ cpc \in {"idle", "done"}
    /\ \E r \in Requests : req' = r
    /\ i' = 0
    /\ tokens' = 0
    /\ attempts' = <<>>
    /\ waits' = <<>>
    /\ result' = NoResult
    /\ cpc' = IF LoopContinues(0) THEN LoopBodyStart ELSE "done"
    /\ UNCHANGED burst
    /\ UNCHANGED <<evars, rvars, ev>>

\* c.limiter.Wait(ctx)
LimiterWait ==
    /\ cpc = "wait"
    /\ IF LimiterWaitOk(burst)
       THEN /\ tokens' = tokens + 1
            /\ cpc' = "exec"
            /\ UNCHANGED result
       ELSE /\ result' = [resp |-> "nil",
                        err |-> IF CtxDone(CallContext) THEN "cancelled" ELSE "limiter"]
            /\ cpc' = "done"
            /\ UNCHANGED tokens
    /\ UNCHANGED <<req, burst, i, attempts, waits>>
    /\ UNCHANGED <<evars, rvars, ev>>

\* req.Execute(method, url) and the analysis of what it returned.
Execute ==
    /\ cpc = "exec"
    /\ \E o \in Outcomes :
        /\ attempts' = Append(attempts, o)
        /\ IF IsSuccess(o)
           THEN /\ result' = [resp |-> "resp", err |-> "nil"]
                /\ cpc' = "done"
           ELSE IF ~ShouldRetry(o)
           THEN /\ result' = [resp |-> "nil", err |-> "status"]
                /\ cpc' = "done"
           ELSE /\ cpc' = "backoff"
                /\ UNCHANGED result
    /\ UNCHANGED <<req, burst, i, tokens, waits>>
    /\ UNCHANGED <<evars, rvars, ev>>

\* select { case <-time.After(retryAfter): continue; case <-ctx.Done():
\* return nil, ctx.Err() } and the loop header.
Backoff ==
    /\ cpc = "backoff"
    /\ IF CtxDone(CallContext)
       THEN /\ result' = [resp |-> "nil", err |-> "cancelled"]
            /\ cpc' = "done"
            /\ UNCHANGED <<waits, i>>
       ELSE /\ waits' = Append(waits, BackoffSeconds(attempts[Len(attempts)], i))
            /\ i' = i + 1
            /\ IF LoopContinues(i + 1)
               THEN /\ cpc' = LoopBodyStart
                    /\ UNCHANGED result
               ELSE /\ result' = [resp |-> "nil", err |-> "exhausted"]
                    /\ cpc' = "done"
    /\ UNCHANGED <<req, burst, tokens, attempts>>
    /\ UNCHANGED <<evars, rvars, ev>>

ClientNext == Call \/ LimiterWait \/ Execute \/ Backoff \/ Cancel

SpecClient == ClientInit /\ [][ClientNext]_vars

(***************************************************************************)
(* Properties of the client, under SpecClient                              *)
(***************************************************************************)

\* The failures the retry policy names: a network-level error, a rate-limit
\* status (429 or 418) or a 5xx status.
NamedRetryable(o) ==
    \/ o.kind \in {"nores", "neterr"}
    \/ o.kind = "http" /\ (o.status \in {429, 418} \/ o.status \in 500..599)

LastAttempt == attempts[Len(attempts)]

\* A failed attempt that the retry analysis marks for a retry.
RetriedFailure(o) == ~IsSuccess(o) /\ ShouldRetry(o)

\* C7: one call of doRequest sends at most 3 HTTP attempts, and when each of
\* the three permitted attempts is a failure marked for a retry the call
\* returns the exhausted-retries error with a nil response.
C7_AtMostThreeAttempts ==
    /\ Len(attempts) <= 3
    /\ ( /\ cpc = "done"
         /\ Len(attempts) = 3
         /\ \A k \in 1..3 : RetriedFailure(attempts[k]) )
       => result = [resp |-> "nil", err |-> "exhausted"]
    /\ result.err = "exhausted" => Len(attempts) = 3

C7_Witness ==
    /\ cpc = "done"
    /\ Len(attempts) = 3
    /\ \A k \in 1..3 : RetriedFailure(attempts[k])
    /\ result = [resp |-> "nil", err |-> "exhausted"]

\* C8: every HTTP attempt, first try and retry alike, is sent with a token
\* obtained from the limiter just before it (one token per attempt), and a
\* failed limiter wait ends the call with an error and no request sent.
C8_TokenBeforeEveryAttempt ==
    /\ cpc = "exec" => tokens = Len(attempts) + 1
    /\ cpc # "exec" => tokens = Len(attempts)
    /\ result.err = "limiter" =>
          /\ cpc = "done"
          /\ result.resp = "nil"
          /\ attempts = <<>>

\* A retry is about to be sent and holds its own token.
C8_Witness ==
    /\ cpc = "exec"
    /\ Len(attempts) = 2
    /\ tokens = 3

\* C9: while attempts remain, an attempt that ended in a network-level
\* error, a 429 or 418 status or a 5xx status is followed by a retry: the
\* call does not end on it.
C9_NamedFailuresAreRetried ==
    ( /\ Len(attempts) \in 1..(maxRetries - 1)
      /\ NamedRetryable(LastAttempt) )
    => cpc # "done"

\* C10: a non-2xx response whose status is neither 429, 418 nor 5xx ends the
\* call on that attempt with a client error, without a backoff wait.
C10_OtherNon2xxIsClientError ==
    \A k \in 1..Len(attempts) :
        ( /\ attempts[k].kind = "http"
          /\ attempts[k].status \notin 200..299
          /\ ~NamedRetryable(attempts[k]) )
        => /\ k = Len(attempts)
           /\ cpc = "done"
           /\ result = [resp |-> "nil", err |-> "status"]
           /\ Len(waits) = k - 1

\* A rate-limit response carrying Retry-After as a number of seconds.
RateLimitedWithSeconds(o) ==
    /\ o.kind = "http"
    /\ o.status \in {429, 418}
    /\ o.retryAfter.form = "int"

\* C11: after a 429 or 418 response that carries Retry-After: n, for every
\* n >= 0, the wait before the next attempt is exactly n seconds.
C11_RetryAfterHonouredExactly ==
    \A k \in 1..Len(waits) :
        RateLimitedWithSeconds(attempts[k]) => waits[k] = attempts[k].retryAfter.n

\* The first k attempts were all answered 500 without Retry-After.
All500(k) ==
    \A j \in 1..k :
        attempts[j] = [kind |-> "http", status |-> 500, retryAfter |-> NoHeader]

BlockedWhenCancelled ==
    /\ cancelled.fired
    /\ (cpc = "wait" /\ burst >= 1) \/ cpc = "backoff"

\* C13: a call blocked on the limiter or sleeping in backoff when the
\* shutdown signal has fired leaves the wait with a cancellation error.
C13_CancelEndsTheWait ==
    [][ (BlockedWhenCancelled /\ cpc' # cpc)
            => (cpc' = "done" /\ result'.err = "cancelled") ]_vars

\* The exchange may have accepted the request of this failed attempt: the
\* transport failed after the request went out, or the answer was a 5xx.
MayHaveBeenAccepted(o) ==
    \/ o.kind = "neterr"
    \/ o.kind = "http" /\ o.status >= 500

\* C36: the order request of one leg is not sent again after an attempt
\* that the exchange may already have accepted: a call of doRequest for
\* POST /order makes no further attempt after a network error or a 5xx
\* answer.
C36_OrderNotSentAgain ==
    req = [method |-> "POST", url |-> "/order"]
        => \A k \in 1..(Len(attempts) - 1) : ~MayHaveBeenAccepted(attempts[k])

\* C38: when the last permitted attempt has failed with a failure marked
\* for a retry, doRequest returns the exhausted-retries error without a
\* further backoff wait: every wait of a call is followed by an attempt.
C38_NoBackoffAfterLastAttempt ==
    (cpc = "done" /\ result.err = "exhausted")
        => Len(waits) = Len(attempts) - 1

====
